---------------------------- MODULE Spec2Model ----------------------------
(***************************************************************************)
(* Model of DilemaFixer/opensource-bot.                                    *)
(*                                                                         *)
(* Part I  (Spec):    the Telegram flow and the OAuth callback of the bot  *)
(*                    (package main: handleUsernameInput,                  *)
(*                    handleGitHubCallback, the authSessions map and its   *)
(*                    mutex authMu).                                       *)
(* Part II (SpecApi): the githubapi client (doJSON and the operations      *)
(*                    built on it).                                        *)
(* Part III (SpecFmt): the pure helpers of a repo value (humanizeInt,      *)
(*                    humanizeSince, PreferredCloneURL).                   *)
(*                                                                         *)
(* Strings that the code inspects (logins, message texts, state tokens)    *)
(* are sequences of character codes, so that TrimSpace, ToLower, HasPrefix *)
(* and the "%d_%d" formatting are computed, not assumed.                   *)
(***************************************************************************)
EXTENDS Integers, Sequences, FiniteSets, TLC

(***************************************************************************)
(* Bounds of the model.                                                    *)
(***************************************************************************)
MaxCallbacks == 2      \* HTTP callback requests served (concurrently)
MaxSubmissions == 2    \* chat messages dispatched (concurrently)
MaxClock == 1          \* time.Now().UnixNano() ranges over 0..MaxClock
Window == 12           \* Part III: inputs lie within Window of each boundary

Callbacks == 1..MaxCallbacks
Submissions == 1..MaxSubmissions

(***************************************************************************)
(* Character codes and the strings of the model.                           *)
(***************************************************************************)
Ascii == [space |-> 32, slash |-> 47, underscore |-> 95, zero |-> 48,
          upperA |-> 65, upperZ |-> 90, caseOffset |-> 32,
          percent |-> 37, minus |-> 45, nine |-> 57, lowerA |-> 97, lowerZ |-> 122,
          del |-> 127, dot |-> 46, lowerK |-> 107, upperM |-> 77]
chSpace == Ascii.space
chSlash == Ascii.slash
chUnderscore == Ascii.underscore
chZero == Ascii.zero
chUpperA == Ascii.upperA
chUpperZ == Ascii.upperZ
chCaseOffset == Ascii.caseOffset

\* net/http status codes the code names
HTTP == [OK |-> 200, NoContent |-> 204, MultipleChoices |-> 300, BadRequest |-> 400,
         Unauthorized |-> 401, Forbidden |-> 403, NotFound |-> 404,
         Unprocessable |-> 422, InternalServerError |-> 500]

sEmpty == << >>
sFo == <<70, 111>>          \* "Fo"
sfo == <<102, 111>>         \* "fo"
sb == <<98>>                \* "b"
s_b == <<32, 98>>           \* " b"
sSlashX == <<47, 120>>      \* "/x"
sBlank == <<32>>            \* " "
sBogus == <<122>>           \* "z": a state value that is never issued

ChatIDs == {1, 11}
Logins == {sFo, sfo, sb}
\* message texts that reach tb.OnText, and arguments of /verify
Texts == {s_b, sSlashX, sBlank}
VerifyArgs == {sFo, sb}

None == [none |-> TRUE]

(***************************************************************************)
(* Pure helpers of the Go standard library, as the code uses them.         *)
(***************************************************************************)
RECURSIVE TrimLeft(_)
TrimLeft(s) ==
    IF s = << >> THEN s
    ELSE IF Head(s) = chSpace THEN TrimLeft(Tail(s)) ELSE s

RECURSIVE TrimRight(_)
TrimRight(s) ==
    IF s = << >> THEN s
    ELSE IF s[Len(s)] = chSpace THEN TrimRight(SubSeq(s, 1, Len(s) - 1)) ELSE s

\* strings.TrimSpace
TrimSpace(s) == TrimRight(TrimLeft(s))

\* strings.HasPrefix(s, "/")
HasSlashPrefix(s) == Len(s) >= 1 /\ s[1] = chSlash

\* strings.ToLower on ASCII
ToLower(s) ==
    [i \in DOMAIN s |->
        IF s[i] >= chUpperA /\ s[i] <= chUpperZ THEN s[i] + chCaseOffset ELSE s[i]]

\* the decimal digits of a non-negative integer (fmt's %d)
RECURSIVE Decimal(_)
Decimal(n) ==
    IF n < 10 THEN <<chZero + n>>
    ELSE Decimal(n \div 10) \o <<chZero + (n % 10)>>

\* generateState: fmt.Sprintf("%d_%d", chatID, time.Now().UnixNano())
generateState(chatID, nanos) ==
    Decimal(chatID) \o <<chUnderscore>> \o Decimal(nanos)

\* every token generateState can return within the bounds
AllTokens == {generateState(c, t) : c \in ChatIDs, t \in 0..MaxClock}

\* values of the state query parameter a client may send
StateParams == AllTokens \cup {sEmpty, sBogus}
\* values of the code query parameter: absent, or some code
CodeParams == {"", "code"}

(***************************************************************************)
(* Part I: the bot.  Upstream responses the bot's HTTP calls can receive.  *)
(***************************************************************************)
\* responses of POST /login/oauth/access_token
TokenResponses ==
    {[fail |-> TRUE, valid |-> FALSE, Error |-> "", ErrorDesc |-> "", AccessToken |-> ""],
     [fail |-> FALSE, valid |-> FALSE, Error |-> "", ErrorDesc |-> "", AccessToken |-> ""],
     [fail |-> FALSE, valid |-> TRUE, Error |-> "bad_verification_code",
      ErrorDesc |-> "expired", AccessToken |-> ""],
     [fail |-> FALSE, valid |-> TRUE, Error |-> "", ErrorDesc |-> "", AccessToken |-> "gho_tok"]}

\* exchangeCodeForToken: the returned token and error
exchangeCodeForToken(resp) ==
    IF resp.fail THEN [token |-> "", err |-> [kind |-> "transport"]]
    ELSE IF ~resp.valid THEN [token |-> "", err |-> [kind |-> "json"]]
    ELSE IF resp.Error # "" THEN
        [token |-> "",
         err |-> [kind |-> "provider", Error |-> resp.Error, ErrorDesc |-> resp.ErrorDesc]]
    ELSE [token |-> resp.AccessToken, err |-> None]

\* responses of GET /user
IdentityResponses ==
    {[fail |-> TRUE, status |-> 0, valid |-> FALSE, login |-> sEmpty],
     [fail |-> FALSE, status |-> HTTP.OK, valid |-> FALSE, login |-> sEmpty],
     \* 401 {"message": "Bad credentials"}: valid JSON without a login field
     [fail |-> FALSE, status |-> HTTP.Unauthorized, valid |-> TRUE, login |-> sEmpty]}
    \cup
    {[fail |-> FALSE, status |-> HTTP.OK, valid |-> TRUE, login |-> l] : l \in Logins}

\* getGitHubUser: the decoded user and error (the status code is not read)
getGitHubUser(accessToken, resp) ==
    IF resp.fail THEN [user |-> None, err |-> [kind |-> "transport"]]
    ELSE IF ~resp.valid THEN [user |-> None, err |-> [kind |-> "json"]]
    ELSE [user |-> [Login |-> resp.login], err |-> None]

\* responses of GET /users/{name} seen by checkUserExists
ExistsResponses ==
    {[fail |-> TRUE, status |-> 0]} \cup
    {[fail |-> FALSE, status |-> st] :
        st \in {HTTP.OK, HTTP.NotFound, HTTP.InternalServerError}}

\* checkUserExists
checkUserExists(resp) ==
    IF resp.fail THEN [exists |-> FALSE, err |-> [kind |-> "transport"]]
    ELSE IF resp.status = HTTP.NotFound THEN [exists |-> FALSE, err |-> None]
    ELSE [exists |-> resp.status = HTTP.OK, err |-> None]

\* mutant: the logins are compared as they are
LoginMismatch_CaseSensitive(userLogin, requestedLogin) == userLogin # requestedLogin

\* the comparison of handleGitHubCallback (line 284): true when the logins differ
LoginMismatch(userLogin, requestedLogin) ==
    ToLower(userLogin) # ToLower(requestedLogin)

(***************************************************************************)
(* State of the bot.                                                       *)
(***************************************************************************)
VARIABLES
    authMu,        \* sync.Mutex: None, or the goroutine holding it
    authSessions,  \* map[string]*AuthSession
    clock,         \* the value time.Now().UnixNano() returns now
    cb,            \* the handleGitHubCallback invocations in flight
    sub,           \* the handleUsernameInput invocations that store a session
    out,           \* what the step just taken wrote (HTTP response, chat messages)
    hist,          \* history: per state value "never", "live" or "consumed"
    call           \* Part II: the last call made on the githubapi client

vars == <<authMu, authSessions, clock, cb, sub, out, hist, call>>

CbIdle ==
    [pc |-> "idle", code |-> "", state |-> sEmpty, ok |-> FALSE, session |-> None,
     seen |-> "never"]
SubIdle ==
    [pc |-> "idle", chatID |-> 0, username |-> sEmpty, state |-> sEmpty, check |-> None]
SubDone == [SubIdle EXCEPT !.pc = "done"]
CallIdle == [op |-> "none"]

BotInit ==
    /\ authMu = None
    /\ authSessions = << >>
    /\ clock = 0
    /\ cb = [c \in Callbacks |-> CbIdle]
    /\ sub = [h \in Submissions |-> SubIdle]
    /\ out = None
    /\ hist = [t \in StateParams |-> "never"]

\* the response and the notifications of one callback, before anything is written
Response(code, state) ==
    [src |-> "callback", code |-> code, state |-> state, lookup |-> "none",
     seen |-> "never", session |-> None,
     tokenResp |-> None, accessToken |-> "", identity |-> None, user |-> None,
     status |-> 0, body |-> "", notif |-> << >>, at |-> "run"]

\* http.Error(w, msg, code), followed by the handler's return
HttpError(r, msg, code) == [r EXCEPT !.status = code, !.body = msg, !.at = "done"]

\* fmt.Fprintf(w, page): the first write sends the implicit 200 header
WritePage(r, page) ==
    [r EXCEPT !.status = IF r.status = 0 THEN HTTP.OK ELSE r.status,
              !.body = page, !.at = "done"]

\* mutant: every notification goes to one fixed chat
BotSend_FixedChat(r, chatID, kind, requested, authorized) ==
    [r EXCEPT !.notif = Append(r.notif,
        [to |-> 1, kind |-> kind, requested |-> requested, authorized |-> authorized])]

\* bot.Send(&tb.User{ID: chatID}, text)
BotSend(r, chatID, kind, requested, authorized) ==
    [r EXCEPT !.notif = Append(r.notif,
        [to |-> chatID, kind |-> kind, requested |-> requested, authorized |-> authorized])]

\* the last response or chat message has been delivered: the handlers' writes
\* are observed one at a time
Quiet == out = None

\* delete(m, k) on a Go map
MapDelete(m, k) == [x \in DOMAIN m \ {k} |-> m[x]]

\* m[k] = v on a Go map
MapPut(m, k, v) == [x \in DOMAIN m \cup {k} |-> IF x = k THEN v ELSE m[x]]

(***************************************************************************)
(* handleGitHubCallback.  A step is a stretch of the handler between two   *)
(* points where another goroutine can observe or change shared state.      *)
(* A new request takes the lowest free slot.                               *)
(***************************************************************************)
\* mutant: only the code is checked
MissingParam_CodeOnly(code, state) == code = ""

\* line 246: true when the request is rejected at once
MissingParam(code, state) == code = "" \/ state = sEmpty

\* state values tried on the parameter check: none, junk, or a pending token
RejectParams == {sEmpty, sBogus} \cup DOMAIN authSessions

\* lines 244-249: a request with a missing parameter is answered at once
CbReject(c) ==
    /\ Quiet
    /\ cb[c].pc = "idle"
    /\ \A d \in Callbacks : d < c => cb[d].pc # "idle"
    /\ \E code \in CodeParams, state \in RejectParams :
        /\ MissingParam(code, state)
        /\ out' = HttpError(Response(code, state), "Missing code or state",
                            HTTP.BadRequest)
    /\ UNCHANGED <<authMu, authSessions, clock, cb, sub, hist, call>>

\* mutant: the lock does not exclude anybody
LockAcquired_NoWait(mu) == TRUE

\* line 252: authMu.Lock() returns once the mutex is free
LockAcquired(mu) == mu = None

\* lines 244-253: a request with both parameters passes the check, waits for
\* the mutex and reads the map: session, ok := authSessions[state].  A request
\* that waits has had no effect yet, so it enters the model when it gets the
\* mutex.
CbLookup(c) ==
    /\ Quiet
    /\ cb[c].pc = "idle"
    /\ \A d \in Callbacks : d < c => cb[d].pc # "idle"
    /\ LockAcquired(authMu)
    /\ authMu' = <<"cb", c>>
    /\ \E code \in CodeParams, state \in StateParams :
        /\ ~MissingParam(code, state)
        /\ LET found == state \in DOMAIN authSessions IN
           cb' = [cb EXCEPT ![c] =
                    [pc |-> "delete", code |-> code, state |-> state, ok |-> found,
                     session |-> IF found THEN authSessions[state] ELSE None,
                     seen |-> hist[state]]]
    /\ out' = None
    /\ UNCHANGED <<authSessions, clock, sub, hist, call>>

\* mutant: a failed exchange is answered but the chat is not told
ExchangeStep_NoNotify(r, resp) ==
    LET res == exchangeCodeForToken(resp)
        r1 == [r EXCEPT !.tokenResp = resp, !.accessToken = res.token]
    IN  IF res.err # None
        THEN HttpError(r1, "Authentication failed", HTTP.InternalServerError)
        ELSE r1

\* lines 264-272: exchange the code; on error 500 and a failure notification
ExchangeStep(r, resp) ==
    LET res == exchangeCodeForToken(resp)
        r1 == [r EXCEPT !.tokenResp = resp, !.accessToken = res.token]
    IN  IF res.err # None
        THEN BotSend(HttpError(r1, "Authentication failed", HTTP.InternalServerError),
                     r1.session.ChatID, "exchange_failed", sEmpty, sEmpty)
        ELSE r1

\* lines 275-281: fetch the identity; on error 500 and a failure notification
FetchStep(r, resp) ==
    LET res == getGitHubUser(r.accessToken, resp)
        r1 == [r EXCEPT !.identity = resp, !.user = res.user]
    IN  IF res.err # None
        THEN BotSend(HttpError(r1, "Failed to get user info", HTTP.InternalServerError),
                     r1.session.ChatID, "userinfo_failed", sEmpty, sEmpty)
        ELSE r1

\* mutant: a mismatch is answered as a client error
CompareStep_MismatchAsError(r) ==
    IF LoginMismatch(r.user.Login, r.session.RequestedLogin)
    THEN HttpError(BotSend(r, r.session.ChatID, "mismatch",
                           r.session.RequestedLogin, r.user.Login),
                   "mismatch page", HTTP.BadRequest)
    ELSE WritePage(BotSend(r, r.session.ChatID, "success", sEmpty, r.user.Login),
                   "success page")

\* lines 284-316: compare the logins, notify the chat, render the page
CompareStep(r) ==
    IF LoginMismatch(r.user.Login, r.session.RequestedLogin)
    THEN WritePage(BotSend(r, r.session.ChatID, "mismatch",
                           r.session.RequestedLogin, r.user.Login),
                   "mismatch page")
    ELSE WritePage(BotSend(r, r.session.ChatID, "success", sEmpty, r.user.Login),
                   "success page")

\* the response of a request that has looked its state up
Looked(r) ==
    [Response(r.code, r.state) EXCEPT
        !.lookup = IF r.ok THEN "hit" ELSE "miss", !.seen = r.seen,
        !.session = r.session]

\* lines 264-316 for a request whose session was found
Serve(r, tokenResp, identityResp) ==
    LET r1 == ExchangeStep(r, tokenResp)
        r2 == IF r1.at = "done" THEN r1 ELSE FetchStep(r1, identityResp)
    IN  IF r2.at = "done" THEN r2 ELSE CompareStep(r2)

\* mutant: the session is left in the map
DeleteIfFound_Keep(m, ok, state) == m

\* lines 254-257: if ok { delete(authSessions, state) }
DeleteIfFound(m, ok, state) == IF ok THEN MapDelete(m, state) ELSE m

\* lines 254-316: if ok { delete(authSessions, state) }; authMu.Unlock();
\* if !ok { 400 "Invalid state"; return }; then the exchange, the fetch and the
\* comparison.  After the unlock the handler reads only its own session object
\* and touches no shared state, so the rest is taken in the same step.
CbDelete(c) ==
    /\ Quiet
    /\ cb[c].pc = "delete"
    /\ authSessions' = DeleteIfFound(authSessions, cb[c].ok, cb[c].state)
    /\ hist' = IF cb[c].ok THEN [hist EXCEPT ![cb[c].state] = "consumed"] ELSE hist
    /\ authMu' = None
    /\ cb' = [cb EXCEPT ![c] = CbIdle]
    /\ IF cb[c].ok
       THEN \E tokenResp \in TokenResponses :
            \E identityResp \in IF exchangeCodeForToken(tokenResp).err # None
                                 THEN {None} ELSE IdentityResponses :
                out' = Serve(Looked(cb[c]), tokenResp, identityResp)
       ELSE out' = HttpError(Looked(cb[c]), "Invalid state", HTTP.BadRequest)
    /\ UNCHANGED <<clock, sub, call>>

(***************************************************************************)
(* The Telegram flow: the dispatch of one message and handleUsernameInput. *)
(***************************************************************************)
\* the tb.OnText handler's filter (lines 71-75): true when the text is dropped
IgnoredText(text) == HasSlashPrefix(TrimSpace(text)) \/ TrimSpace(text) = sEmpty

\* what one dispatched message wrote to its chat
Reply(via, chat, text) ==
    [src |-> "chat", via |-> via, chat |-> chat, text |-> text, reached |-> FALSE,
     username |-> sEmpty, check |-> None, state |-> sEmpty, reply |-> ""]

\* handleUsernameInput (lines 83-122) up to the point where it either returns
\* early or is about to store the session: o is what it has sent so far
UsernameInput(o, arg, resp, now) ==
    LET username == TrimSpace(arg)
        res == checkUserExists(resp)
        o1 == [o EXCEPT !.reached = TRUE, !.username = username, !.check = resp]
    IN  IF res.err # None THEN [o1 EXCEPT !.reply = "check_error"]
        ELSE IF ~res.exists THEN [o1 EXCEPT !.reply = "not_found"]
        ELSE [o1 EXCEPT !.state = generateState(o.chat, now), !.reply = "link"]

\* lines 99-103: the session handleUsernameInput stores; obj is the identity
\* of the allocated object (one allocation per stored session)
NewSession(chatID, state, username, h) ==
    [ChatID |-> chatID, State |-> state, RequestedLogin |-> username, obj |-> h]

\* the dispatch of one message, up to the handler's early return or to line 95:
\* a handler that returns early has sent its reply; one that goes on holds
\* chatID, username and state until the session is stored
Dispatch(h, o) ==
    /\ IF o.reply = "link"
       THEN /\ sub' = [sub EXCEPT ![h] = [pc |-> "lock", chatID |-> o.chat,
                                          username |-> o.username, state |-> o.state,
                                          check |-> o.check]]
            /\ out' = None
       ELSE /\ sub' = sub
            /\ out' = o
    /\ UNCHANGED <<authMu, authSessions, clock, cb, hist, call>>

\* a message arrives through /verify <arg> (lines 61-67)
SubVerify(h) ==
    /\ Quiet
    /\ sub[h].pc = "idle"
    /\ \A g \in Submissions : g < h => sub[g].pc # "idle"
    /\ \E chat \in ChatIDs, arg \in VerifyArgs, resp \in ExistsResponses :
        Dispatch(h, UsernameInput(Reply("verify", chat, arg), arg, resp, clock))

\* a free-text message arrives (lines 70-77)
SubText(h) ==
    /\ Quiet
    /\ sub[h].pc = "idle"
    /\ \A g \in Submissions : g < h => sub[g].pc # "idle"
    /\ \E chat \in ChatIDs, text \in Texts :
        \E resp \in IF IgnoredText(text) THEN {None} ELSE ExistsResponses :
            Dispatch(h, IF IgnoredText(text) THEN Reply("text", chat, text)
                        ELSE UsernameInput(Reply("text", chat, text), TrimSpace(text),
                                           resp, clock))

\* lines 98-121: authMu.Lock(); authSessions[state] = &AuthSession{...};
\* authMu.Unlock(); send the authorization link.  The critical section is the
\* single map write.
SubInsert(h) ==
    /\ Quiet
    /\ sub[h].pc = "lock"
    /\ LockAcquired(authMu)
    /\ authSessions' = MapPut(authSessions, sub[h].state,
            NewSession(sub[h].chatID, sub[h].state, sub[h].username, h))
    /\ out' = [Reply("", sub[h].chatID, sEmpty) EXCEPT
                    !.reached = TRUE, !.username = sub[h].username,
                    !.check = sub[h].check, !.state = sub[h].state, !.reply = "link"]
    /\ hist' = [hist EXCEPT ![sub[h].state] = "live"]
    /\ sub' = [sub EXCEPT ![h] = SubDone]
    /\ UNCHANGED <<authMu, clock, cb, call>>

\* time passes: the next reading of the clock is larger
Tick ==
    /\ Quiet
    /\ clock < MaxClock
    /\ clock' = clock + 1
    /\ out' = None
    /\ UNCHANGED <<authMu, authSessions, cb, sub, hist, call>>

\* the response reaches the client, the message reaches the chat
Deliver ==
    /\ ~Quiet
    /\ out' = None
    /\ UNCHANGED <<authMu, authSessions, clock, cb, sub, hist, call>>

Init == BotInit /\ call = CallIdle

Next ==
    \/ \E c \in Callbacks : CbReject(c)
    \/ \E c \in Callbacks : CbLookup(c)
    \/ \E c \in Callbacks : CbDelete(c)
    \/ \E h \in Submissions : SubVerify(h)
    \/ \E h \in Submissions : SubText(h)
    \/ \E h \in Submissions : SubInsert(h)
    \/ Tick
    \/ Deliver

Spec == Init /\ [][Next]_vars

(***************************************************************************)
(* Properties of the bot (Part I), checked under Spec.                     *)
(***************************************************************************)
\* the step just taken answered a callback request
IsResponse == out # None /\ out.src = "callback"

\* the notifications of the given kind in the response just written
Notified(kind) == {i \in DOMAIN out.notif : out.notif[i].kind = kind}

\* two logins are equal up to the case of their letters
SameIgnoringCase(a, b) ==
    /\ Len(a) = Len(b)
    /\ \A i \in DOMAIN a :
        \/ a[i] = b[i]
        \/ a[i] \in 65..90 /\ b[i] = a[i] + 32
        \/ b[i] \in 65..90 /\ a[i] = b[i] + 32

\* C1: a pending session is observed as present by at most one callback: the
\* lookup and the delete of authSessions[state] are one indivisible step under
\* authMu.  Between a callback's lookup and its delete the callback holds the
\* mutex, no other callback is between its own lookup and delete, the map
\* still holds exactly what the lookup saw (no insert or delete slipped in),
\* no two callbacks hold the same session object, and a session is found only
\* while it is live (stored and not yet consumed).
C1_LookupDeleteAtomic ==
    /\ \A c \in Callbacks : cb[c].pc = "delete" =>
        /\ authMu = <<"cb", c>>
        /\ cb[c].ok <=> cb[c].state \in DOMAIN authSessions
        /\ cb[c].ok => authSessions[cb[c].state] = cb[c].session
        /\ cb[c].ok => cb[c].seen = "live"
    /\ \A c, d \in Callbacks :
        (c # d /\ cb[c].pc = "delete" /\ cb[d].pc = "delete") => ~(cb[c].ok /\ cb[d].ok)

\* C1 witness: a callback has just been rejected as invalid state for a token
\* that another callback consumed, while a further submission of the same
\* chat is still on its way to the map
C1_Witness ==
    /\ IsResponse /\ out.lookup = "miss" /\ out.seen = "consumed"
    /\ out.body = "Invalid state"
    /\ \E h \in Submissions : sub[h].pc = "lock"

\* C2: a callback whose state has no live session at its lookup (the session
\* was consumed and not created again, or the state was never issued) is
\* answered 400 "Invalid state" and performs no exchange, no fetch and sends
\* no notification; and a consumed token stays out of the map until a new
\* session is stored under it.
C2_ConsumedRejected ==
    /\ \A t \in DOMAIN authSessions : hist[t] = "live"
    /\ (IsResponse /\ out.code # "" /\ out.state # sEmpty /\ out.seen # "live") =>
        /\ out.lookup = "miss"
        /\ out.status = 400
        /\ out.body = "Invalid state"
        /\ out.tokenResp = None
        /\ out.identity = None
        /\ out.notif = << >>

\* C2 witness: a rejected callback for a token that was consumed before
C2_Witness ==
    /\ IsResponse /\ out.seen = "consumed" /\ out.state \in AllTokens
    /\ out.status = 400 /\ out.notif = << >>

\* C3: a callback with an empty code or state is answered 400 without any
\* lookup: no session is read or removed, nothing is exchanged, fetched or
\* sent, and the step changes nothing but the response.
C3_MissingParamRejected ==
    [][ (out' # None /\ out'.src = "callback" /\ (out'.code = "" \/ out'.state = sEmpty)) =>
            /\ out'.status = 400
            /\ out'.lookup = "none"
            /\ out'.session = None
            /\ out'.tokenResp = None
            /\ out'.identity = None
            /\ out'.notif = << >>
            /\ authSessions' = authSessions
            /\ authMu' = authMu
            /\ cb' = cb ]_vars

\* C3 witness: a request without code was rejected although its state names
\* a pending session, which is still in the map
C3_Witness ==
    /\ IsResponse /\ out.code = "" /\ out.status = 400
    /\ out.state \in DOMAIN authSessions

\* C4: when the exchange fails (transport failure, undecodable body, or a
\* provider response with an error field) the callback answers 500, sends one
\* failure notification to the session's chat, fetches no identity and sends
\* no success notification.
C4_ExchangeFailure ==
    (IsResponse /\ out.tokenResp # None
        /\ (out.tokenResp.fail \/ ~out.tokenResp.valid \/ out.tokenResp.Error # "")) =>
        /\ out.status = 500
        /\ Len(out.notif) = 1
        /\ out.notif[1].to = out.session.ChatID
        /\ out.notif[1].kind = "exchange_failed"
        /\ out.identity = None
        /\ out.user = None

\* C4 witness: the provider answered the exchange with an error field
C4_Witness ==
    /\ IsResponse /\ out.tokenResp # None
    /\ out.tokenResp.Error # "" /\ out.status = 500

\* C5 (as claimed): when the identity fetch fails (transport failure, a
\* non-2xx status, or an undecodable body) the callback answers 500 with a
\* failure notification and renders neither the success nor the mismatch page.
C5_IdentityFailure ==
    (IsResponse /\ out.identity # None
        /\ (out.identity.fail \/ ~out.identity.valid
              \/ out.identity.status < 200 \/ out.identity.status >= 300)) =>
        /\ out.status = 500
        /\ Len(out.notif) = 1
        /\ out.notif[1].kind = "userinfo_failed"
        /\ out.body \notin {"success page", "mismatch page"}

\* C6: for a callback that reaches the comparison, a success notification is
\* sent and the success page rendered exactly when the authenticated login
\* equals the requested login ignoring letter case.
C6_SuccessIffSameLogin ==
    (IsResponse /\ out.user # None) =>
        /\ Notified("success") # {} <=>
                SameIgnoringCase(out.user.Login, out.session.RequestedLogin)
        /\ out.body = "success page" <=>
                SameIgnoringCase(out.user.Login, out.session.RequestedLogin)

\* C6 witness: logins that differ only in case were accepted
C6_Witness ==
    /\ IsResponse /\ out.user # None
    /\ out.user.Login # out.session.RequestedLogin
    /\ Notified("success") # {}

\* C7: when the exchange and the identity fetch return without error and the
\* logins differ, the chat gets one mismatch notification naming the requested
\* and the authorized login, the failure page is rendered, and the status is 200.
C7_MismatchIs200 ==
    (IsResponse /\ out.user # None
        /\ ~SameIgnoringCase(out.user.Login, out.session.RequestedLogin)) =>
        /\ out.status = 200
        /\ out.body = "mismatch page"
        /\ Len(out.notif) = 1
        /\ out.notif[1].kind = "mismatch"
        /\ out.notif[1].to = out.session.ChatID
        /\ out.notif[1].requested = out.session.RequestedLogin
        /\ out.notif[1].authorized = out.user.Login

\* C7 witness: another account than the requested one was authorized
C7_Witness ==
    /\ IsResponse /\ out.user # None /\ out.identity.status = 200
    /\ out.user.Login = sb /\ out.session.RequestedLogin = sFo
    /\ out.body = "mismatch page"

\* C8 (as claimed): generateState never returns a token of a still-pending
\* session, so storing a new session never overwrites a pending one.
C8_TokensUnique ==
    \A h \in Submissions : sub[h].pc = "lock" => sub[h].state \notin DOMAIN authSessions

(***************************************************************************)
(* Part II: the githubapi client.                                          *)
(*                                                                         *)
(* call holds the client, the profile most recently returned by a lookup   *)
(* (the receiver of the profile operations), and the last call: its        *)
(* argument, the request it sent, the response it consumed, and what it    *)
(* returned.  A step is one call; the upstream response is an input.       *)
(***************************************************************************)
sApiURL == <<104, 58, 47, 47, 97>>     \* "h://a": a base URL that parses
sBadURL == <<104, 58, 10>>             \* "h:\n": a base URL with a control character
sCtl == <<98, 10>>                     \* "b\n"
sPct == <<37, 122>>                    \* "%z"

Usernames == {sb, s_b, sBlank, sEmpty, sCtl}
RepoNames == {sb, s_b, sCtl, sPct}
Ids == {0 - 3, 0, 42}

\* strconv.FormatInt(id, 10) and fmt.Sprint(id) of an int64
FormatInt(id) == IF id < 0 THEN <<Ascii.minus>> \o Decimal(0 - id) ELSE Decimal(id)

IsAlnum(ch) ==
    \/ ch >= Ascii.zero /\ ch <= Ascii.nine
    \/ ch >= chUpperA /\ ch <= chUpperZ
    \/ ch >= Ascii.lowerA /\ ch <= Ascii.lowerZ

IsHex(ch) ==
    \/ ch >= Ascii.zero /\ ch <= Ascii.nine
    \/ ch >= chUpperA /\ ch <= chUpperA + 5
    \/ ch >= Ascii.lowerA /\ ch <= Ascii.lowerA + 5

HexDigit(n) == IF n < 10 THEN Ascii.zero + n ELSE chUpperA + (n - 10)

\* url.PathEscape: every byte outside the unreserved set and $&+=:@ becomes %XX
RECURSIVE PathEscape(_)
PathEscape(s) ==
    IF s = << >> THEN s
    ELSE LET ch == Head(s) IN
         (IF IsAlnum(ch) \/ ch \in {45, 95, 46, 126, 36, 38, 43, 61, 58, 64}
          THEN <<ch>>
          ELSE <<Ascii.percent, HexDigit(ch \div 16), HexDigit(ch % 16)>>)
         \o PathEscape(Tail(s))

\* http.NewRequestWithContext fails when the URL does not parse: a control
\* character, or a '%' that does not start a two-digit hex escape
NewRequestFails(url) ==
    \/ \E i \in DOMAIN url : url[i] < Ascii.space \/ url[i] = Ascii.del
    \/ \E i \in DOMAIN url :
        /\ url[i] = Ascii.percent
        /\ (i + 2 > Len(url) \/ ~IsHex(url[i + 1]) \/ ~IsHex(url[i + 2]))

\* the zero GitHubAPI embedded in a freshly allocated profile or repo
ZeroAPI ==
    [oAuth |-> "", baseURL |-> sEmpty, userAgent |-> "", timeout |-> "0",
     http |-> "nil", accessToken |-> ""]

NewDefaultGitHubAPI ==
    [oAuth |-> "", baseURL |-> sApiURL, userAgent |-> "githubapi/1.0",
     timeout |-> "10s", http |-> "http.Client", accessToken |-> ""]

WithHTTP(http) == [field |-> "http", value |-> http]
WithTimeout(timeout) == [field |-> "timeout", value |-> timeout]
WithUserAgent(userAgent) == [field |-> "userAgent", value |-> userAgent]
WithBaseURL(baseURL) == [field |-> "baseURL", value |-> baseURL]
WithOAuth(oAuth) == [field |-> "oAuth", value |-> oAuth]

RECURSIVE ApplyOptions(_, _)
ApplyOptions(def, opts) ==
    IF opts = << >> THEN def
    ELSE ApplyOptions([def EXCEPT ![Head(opts).field] = Head(opts).value], Tail(opts))

WithOptions(opts) == ApplyOptions(NewDefaultGitHubAPI, opts)

\* the clients of the model
Clients ==
    { NewDefaultGitHubAPI,
      WithOptions(<<WithBaseURL(sBadURL)>>),
      WithOptions(<<WithHTTP("mock"), WithUserAgent(""), WithTimeout("1s"),
                    WithOAuth("app")>>) }

\* the error values
HTTPError(StatusCode, Body) ==
    [kind |-> "HTTPError", StatusCode |-> StatusCode, Body |-> Body]
NewProfileNotFoundError(profile) == [kind |-> "ProfileNotFoundError", Profile |-> profile]
NewRepoNotFoundError(repo) == [kind |-> "RepoNotFoundError", Repo |-> repo]
ErrorsNew(text) == [kind |-> "errorString", text |-> text]

\* mutant: a 404 is never recognised
IsNotFound_Never(err) == FALSE
\* he, ok := err.(*HTTPError); ok && he.StatusCode == http.StatusNotFound
IsNotFound(err) ==
    err # None /\ err.kind = "HTTPError" /\ err.StatusCode = HTTP.NotFound

\* response bodies
jObject ==
    "{\"login\":\"b\",\"name\":\"b\",\"id\":42,\"owner\":{\"login\":\"b\"},\"default_branch\":\"main\"}"
jArray == "[{\"name\":\"b\",\"id\":42,\"owner\":{\"login\":\"b\"},\"default_branch\":\"main\"}]"
jNotFound == "{\"message\":\"Not Found\"}"

\* what the transport can answer: a failure of Do, or a status and a body
ApiResponses ==
    { [fail |-> TRUE, status |-> 0, body |-> ""] }
    \cup { [fail |-> FALSE, status |-> HTTP.OK, body |-> b] :
             b \in {jObject, jArray, "", "<html>"} }
    \cup { [fail |-> FALSE, status |-> HTTP.NoContent, body |-> ""],
           [fail |-> FALSE, status |-> HTTP.MultipleChoices, body |-> "moved"],
           [fail |-> FALSE, status |-> HTTP.Forbidden, body |-> "rate limit"],
           [fail |-> FALSE, status |-> HTTP.NotFound, body |-> jNotFound],
           [fail |-> FALSE, status |-> HTTP.Unprocessable, body |-> "exists"],
           [fail |-> FALSE, status |-> HTTP.InternalServerError, body |-> "boom"],
           [fail |-> FALSE, status |-> HTTP.InternalServerError, body |-> ""] }

\* the zero values doJSON decodes into
ZeroProfile == [api |-> ZeroAPI, Login |-> sEmpty, ID |-> 0]
ZeroRepo ==
    [api |-> ZeroAPI, Name |-> sEmpty, ID |-> 0, Owner |-> [Login |-> sEmpty],
     DefaultBranch |-> ""]
\* the repo the object and array bodies describe
DecodedRepo ==
    [ZeroRepo EXCEPT !.Name = sb, !.ID = 42, !.Owner = [Login |-> sb],
                     !.DefaultBranch = "main"]
\* the zero CreateContentResp
ZeroContent == [Content |-> [Path |-> ""], Commit |-> [Message |-> ""]]
ZeroValue(kind) ==
    CASE kind = "profile" -> ZeroProfile
      [] kind = "repo" -> ZeroRepo
      [] kind = "repos" -> << >>
      [] kind = "tags" -> << >>
      [] kind = "content" -> ZeroContent
      [] OTHER -> None

\* json.Unmarshal(b, out): an object decodes into a struct, an array into a slice;
\* the unexported configuration fields are never touched
Unmarshal(b, kind) ==
    CASE b = jObject /\ kind = "profile" ->
            [err |-> None, out |-> [ZeroProfile EXCEPT !.Login = sb, !.ID = 42]]
      [] b = jObject /\ kind = "repo" ->
            [err |-> None, out |-> DecodedRepo]
      [] b = jArray /\ kind = "repos" ->
            [err |-> None, out |-> <<DecodedRepo>>]
      [] b = jObject /\ kind = "content" ->
            [err |-> None, out |-> ZeroContent]
      [] b = jArray /\ kind = "tags" ->
            [err |-> None, out |-> <<[Name |-> sb]>>]
      [] OTHER -> [err |-> [kind |-> "json"], out |-> ZeroValue(kind)]

\* GitHubAPI.applyFrom: accessToken is not copied
applyFrom(p, api) ==
    [p EXCEPT !.api = [@ EXCEPT !.http = api.http, !.oAuth = api.oAuth,
                                !.baseURL = api.baseURL, !.userAgent = api.userAgent,
                                !.timeout = api.timeout]]

\* the path after the base URL: a literal prefix and the segments appended to it
RECURSIVE JoinSegments(_)
JoinSegments(segs) ==
    IF Len(segs) = 0 THEN << >>
    ELSE IF Len(segs) = 1 THEN segs[1]
    ELSE segs[1] \o <<chSlash>> \o JoinSegments(Tail(segs))

\* GitHubAPI.newReq
newReq(c, method, prefix, segs) ==
    IF NewRequestFails(c.baseURL \o JoinSegments(segs))
    THEN [req |-> None, err |-> [kind |-> "url.Error"]]
    ELSE [req |-> [method |-> method, baseURL |-> c.baseURL, prefix |-> prefix,
                   segs |-> segs, Accept |-> "application/vnd.github.v3+json",
                   UserAgent |-> c.userAgent, via |-> c.http],
          err |-> None]

\* GitHubAPI.doJSON: kind names the type of out ("nil" for a nil out)
doJSON(req, kind, resp) ==
    IF resp.fail THEN [err |-> [kind |-> "transport"], out |-> ZeroValue(kind)]
    ELSE IF resp.status < HTTP.OK \/ resp.status >= HTTP.MultipleChoices
    THEN [err |-> HTTPError(resp.status, resp.body), out |-> ZeroValue(kind)]
    ELSE IF kind = "nil" \/ resp.body = ""
    THEN [err |-> None, out |-> ZeroValue(kind)]
    ELSE Unmarshal(resp.body, kind)

\* what a call leaves behind: the request sent and the response consumed
\* (None when the call returned before sending), the result and the error
Return(req, resp, ret, err) == [req |-> req, resp |-> resp, ret |-> ret, err |-> err]

CheckUserExists(c, name, resp) ==
    LET username == TrimSpace(name)
        nr == newReq(c, "GET", "/users/", <<PathEscape(username)>>)
        err == doJSON(nr.req, "nil", resp).err
    IN  IF username = sEmpty
        THEN Return(None, None, FALSE, ErrorsNew("username is empty"))
        ELSE IF nr.err # None THEN Return(None, None, FALSE, nr.err)
        ELSE IF err # None
        THEN IF IsNotFound(err) THEN Return(nr.req, resp, FALSE, None)
             ELSE Return(nr.req, resp, FALSE, err)
        ELSE Return(nr.req, resp, TRUE, None)

GetUserIfExists(c, name, resp) ==
    LET username == TrimSpace(name)
        nr == newReq(c, "GET", "/users/", <<PathEscape(username)>>)
        d == doJSON(nr.req, "profile", resp)
    IN  IF username = sEmpty
        THEN Return(None, None, None, ErrorsNew("username is empty"))
        ELSE IF nr.err # None THEN Return(None, None, None, nr.err)
        ELSE IF d.err # None
        THEN IF IsNotFound(d.err)
             THEN Return(nr.req, resp, None, NewProfileNotFoundError(username))
             ELSE Return(nr.req, resp, None, d.err)
        ELSE Return(nr.req, resp, applyFrom(d.out, c), None)

CheckUserExistsById(c, id, resp) ==
    LET nr == newReq(c, "GET", "/user/", <<PathEscape(FormatInt(id))>>)
        err == doJSON(nr.req, "nil", resp).err
    IN  IF nr.err # None THEN Return(None, None, FALSE, nr.err)
        ELSE IF err # None
        THEN IF IsNotFound(err) THEN Return(nr.req, resp, FALSE, None)
             ELSE Return(nr.req, resp, FALSE, err)
        ELSE Return(nr.req, resp, TRUE, None)

\* an error of doJSON other than 404 falls out of the if and reaches return true, nil
CheckIsRepoExistsById(c, id, resp) ==
    LET nr == newReq(c, "GET", "/repositories/", <<PathEscape(FormatInt(id))>>)
        err == doJSON(nr.req, "repo", resp).err
    IN  IF nr.err # None THEN Return(None, None, FALSE, nr.err)
        ELSE IF err # None /\ IsNotFound(err) THEN Return(nr.req, resp, FALSE, None)
        ELSE Return(nr.req, resp, TRUE, None)

\* the repo returned is the decoded one: applyFrom is not called
GetRepoByIdIfExist(c, id, resp) ==
    LET nr == newReq(c, "GET", "/repositories/", <<PathEscape(FormatInt(id))>>)
        d == doJSON(nr.req, "repo", resp)
    IN  IF nr.err # None THEN Return(None, None, None, nr.err)
        ELSE IF d.err # None
        THEN IF IsNotFound(d.err)
             THEN Return(nr.req, resp, None, NewRepoNotFoundError(FormatInt(id)))
             ELSE Return(nr.req, resp, None, d.err)
        ELSE Return(nr.req, resp, d.out, None)

GetUserByIdIfExist(c, id, resp) ==
    LET nr == newReq(c, "GET", "/user/", <<PathEscape(FormatInt(id))>>)
        d == doJSON(nr.req, "profile", resp)
    IN  IF nr.err # None THEN Return(None, None, None, nr.err)
        ELSE IF d.err # None
        THEN IF IsNotFound(d.err)
             THEN Return(nr.req, resp, None, NewProfileNotFoundError(FormatInt(id)))
             ELSE Return(nr.req, resp, None, d.err)
        ELSE Return(nr.req, resp, applyFrom(d.out, c), None)

\* GitHubProfileAPI.GetPublicRepos: the path is formatted without escaping
GetPublicRepos(p, resp) ==
    LET nr == newReq(p.api, "GET", "/users/%s/repos", <<p.Login>>)
        d == doJSON(nr.req, "repos", resp)
    IN  IF nr.err # None THEN Return(None, None, << >>, nr.err)
        ELSE IF d.err # None THEN Return(nr.req, resp, << >>, d.err)
        ELSE Return(nr.req, resp, d.out, None)

\* GitHubProfileAPI.IsRepoExist: the last error branch returns err, the error
\* of newReq, which is nil there; jerror is dropped
IsRepoExist(p, name, resp) ==
    LET nr == newReq(p.api, "GET", "/repos/%s/%s", <<p.Login, name>>)
        err == nr.err
        jerror == doJSON(nr.req, "repo", resp).err
    IN  IF err # None THEN Return(None, None, FALSE, err)
        ELSE IF jerror # None
        THEN IF IsNotFound(jerror) THEN Return(nr.req, resp, FALSE, None)
             ELSE Return(nr.req, resp, FALSE, err)
        ELSE Return(nr.req, resp, TRUE, None)

\* GitHubProfileAPI.GetRepoIfExist: as IsRepoExist, the last error branch
\* returns the nil err of newReq
GetRepoIfExist(p, name, resp) ==
    LET nr == newReq(p.api, "GET", "/repos/%s/%s", <<p.Login, name>>)
        err == nr.err
        d == doJSON(nr.req, "repo", resp)
    IN  IF err # None THEN Return(None, None, None, err)
        ELSE IF d.err # None
        THEN IF IsNotFound(d.err)
             THEN Return(nr.req, resp, None, NewRepoNotFoundError(name))
             ELSE Return(nr.req, resp, None, err)
        ELSE Return(nr.req, resp, d.out, None)

\* a repo value the caller builds around a client: GitHubRepoAPI{GitHubAPI: *c, ...}
RepoOf(c) == [DecodedRepo EXCEPT !.api = c]

\* c.http.Do(req) on a nil Doer: the call panics
Panic == [kind |-> "panic"]
Panics(req) == req.via = "nil"

\* GitHubRepoAPI.GetRepoTags
GetRepoTags(r, resp) ==
    LET nr == newReq(r.api, "GET", "/repos/%s/%s/tags",
                     <<PathEscape(r.Owner.Login), PathEscape(r.Name)>>)
        d == doJSON(nr.req, "tags", resp)
    IN  IF nr.err # None THEN Return(None, None, << >>, nr.err)
        ELSE IF Panics(nr.req) THEN Return(nr.req, None, << >>, Panic)
        ELSE IF d.err # None THEN Return(nr.req, resp, << >>, d.err)
        ELSE Return(nr.req, resp, [i \in DOMAIN d.out |-> d.out[i].Name], None)

sMd == <<46, 109, 100>>                \* ".md"
sA == <<97>>                           \* "a"
sPaddedMD == <<32, 47, 97, 46, 77, 68>>    \* " /a.MD"
Filenames == {sEmpty, sBlank, sA, sPaddedMD}
CommitMsgs == {"", "msg"}
Branches == {"", "dev"}

\* strings.HasSuffix(s, suffix)
HasSuffix(s, suffix) ==
    Len(s) >= Len(suffix) /\ SubSeq(s, Len(s) - Len(suffix) + 1, Len(s)) = suffix

\* strings.TrimLeft(s, "/")
RECURSIVE TrimLeftSlash(_)
TrimLeftSlash(s) ==
    IF s = << >> THEN s
    ELSE IF Head(s) = chSlash THEN TrimLeftSlash(Tail(s)) ELSE s

\* pathEscapeSegments: every segment between slashes is escaped, the slashes stay
RECURSIVE pathEscapeSegments(_)
pathEscapeSegments(p) ==
    IF p = << >> THEN p
    ELSE (IF Head(p) = chSlash THEN <<chSlash>> ELSE PathEscape(<<Head(p)>>))
         \o pathEscapeSegments(Tail(p))

\* mutant: the 422 answer is passed on as the generic error
AlreadyExists_Generic(fn, branch, body) == HTTPError(HTTP.Unprocessable, body)
\* the error of the 422 branch: fmt.Errorf("file %q already exists on branch %q: %s", ...)
AlreadyExists(fn, branch, body) ==
    [kind |-> "errorString", text |-> "file %q already exists on branch %q: %s",
     fn |-> fn, branch |-> branch, body |-> body]

\* GitHubRepoAPI.UploadMdFileWithToken
UploadMdFileWithToken(r, filename, content, commitMsg0, branch0, resp) ==
    LET trimmed == TrimSpace(filename)
        withExt == IF HasSuffix(ToLower(trimmed), sMd) THEN trimmed ELSE trimmed \o sMd
        fn == TrimLeftSlash(withExt)
        commitMsg == IF commitMsg0 = "" THEN <<"chore: add ", fn>> ELSE <<commitMsg0>>
        branch == IF branch0 = "" THEN r.DefaultBranch ELSE branch0
        body == [message |-> commitMsg, content |-> <<"base64", content>>,
                 branch |-> branch]
        nr == newReq(r.api, "PUT", "/repos/%s/%s/contents/%s",
                     <<PathEscape(r.Owner.Login), PathEscape(r.Name),
                       pathEscapeSegments(fn)>>)
        req == nr.req @@ [body |-> body, ContentType |-> "application/json",
                          Authorization |-> IF r.api.accessToken # ""
                                            THEN <<"Bearer ", r.api.accessToken>>
                                            ELSE << >>]
        d == doJSON(req, "content", resp)
    IN  IF trimmed = sEmpty
        THEN Return(None, None, None, ErrorsNew("filename is empty"))
        ELSE IF nr.err # None THEN Return(None, None, None, nr.err)
        ELSE IF Panics(req) THEN Return(req, None, None, Panic)
        ELSE IF d.err # None
        THEN IF d.err.kind = "HTTPError" /\ d.err.StatusCode = HTTP.Unprocessable
             THEN Return(req, resp, None, AlreadyExists(fn, branch, d.err.Body))
             ELSE Return(req, resp, None, d.err)
        ELSE Return(req, resp, d.out, None)

\* the state after construction of client c, with the repo value r at hand
NewCall(c, r) ==
    [op |-> "new", api |-> c, profile |-> None, repo |-> r, arg |-> None,
     req |-> None, resp |-> None, ret |-> None, err |-> None]

\* the state after a call: a profile or repo returned by a lookup becomes the
\* receiver of the later profile or repo operations
Called(op, arg, r, profile, repo) ==
    [op |-> op, api |-> call.api, profile |-> profile, repo |-> repo, arg |-> arg,
     req |-> r.req, resp |-> r.resp, ret |-> r.ret, err |-> r.err]

\* the repo a lookup handed to its caller, if it did
Obtained(r) == IF r.err = None /\ r.ret # None THEN r.ret ELSE call.repo

CallCheckUserExists ==
    \E username \in Usernames, resp \in ApiResponses :
        /\ call' = Called("CheckUserExists", username,
                          CheckUserExists(call.api, username, resp), call.profile, call.repo)
        /\ UNCHANGED <<authMu, authSessions, clock, cb, sub, out, hist>>

CallGetUserIfExists ==
    \E username \in Usernames, resp \in ApiResponses :
        LET r == GetUserIfExists(call.api, username, resp) IN
        /\ call' = Called("GetUserIfExists", username, r,
                          IF r.err = None THEN r.ret ELSE call.profile, call.repo)
        /\ UNCHANGED <<authMu, authSessions, clock, cb, sub, out, hist>>

CallCheckUserExistsById ==
    \E id \in Ids, resp \in ApiResponses :
        /\ call' = Called("CheckUserExistsById", id,
                          CheckUserExistsById(call.api, id, resp), call.profile, call.repo)
        /\ UNCHANGED <<authMu, authSessions, clock, cb, sub, out, hist>>

CallCheckIsRepoExistsById ==
    \E id \in Ids, resp \in ApiResponses :
        /\ call' = Called("CheckIsRepoExistsById", id,
                          CheckIsRepoExistsById(call.api, id, resp), call.profile, call.repo)
        /\ UNCHANGED <<authMu, authSessions, clock, cb, sub, out, hist>>

CallGetRepoByIdIfExist ==
    \E id \in Ids, resp \in ApiResponses :
        /\ call' = Called("GetRepoByIdIfExist", id,
                          GetRepoByIdIfExist(call.api, id, resp), call.profile,
                          Obtained(GetRepoByIdIfExist(call.api, id, resp)))
        /\ UNCHANGED <<authMu, authSessions, clock, cb, sub, out, hist>>

CallGetUserByIdIfExist ==
    \E id \in Ids, resp \in ApiResponses :
        LET r == GetUserByIdIfExist(call.api, id, resp) IN
        /\ call' = Called("GetUserByIdIfExist", id, r,
                          IF r.err = None THEN r.ret ELSE call.profile, call.repo)
        /\ UNCHANGED <<authMu, authSessions, clock, cb, sub, out, hist>>

CallGetPublicRepos ==
    \E resp \in ApiResponses :
        /\ call.profile # None
        /\ call' = Called("GetPublicRepos", None,
                          GetPublicRepos(call.profile, resp), call.profile,
                          LET r == GetPublicRepos(call.profile, resp) IN
                          IF r.err = None /\ r.ret # << >> THEN r.ret[1] ELSE call.repo)
        /\ UNCHANGED <<authMu, authSessions, clock, cb, sub, out, hist>>

CallIsRepoExist ==
    \E name \in RepoNames, resp \in ApiResponses :
        /\ call.profile # None
        /\ call' = Called("IsRepoExist", name,
                          IsRepoExist(call.profile, name, resp), call.profile, call.repo)
        /\ UNCHANGED <<authMu, authSessions, clock, cb, sub, out, hist>>

CallGetRepoIfExist ==
    \E name \in RepoNames, resp \in ApiResponses :
        /\ call.profile # None
        /\ call' = Called("GetRepoIfExist", name,
                          GetRepoIfExist(call.profile, name, resp), call.profile,
                          Obtained(GetRepoIfExist(call.profile, name, resp)))
        /\ UNCHANGED <<authMu, authSessions, clock, cb, sub, out, hist>>

CallGetRepoTags ==
    \E resp \in ApiResponses :
        /\ call.repo # None
        /\ call' = Called("GetRepoTags", None,
                          GetRepoTags(call.repo, resp), call.profile, call.repo)
        /\ UNCHANGED <<authMu, authSessions, clock, cb, sub, out, hist>>

CallUploadMdFileWithToken ==
    \E filename \in Filenames, commitMsg \in CommitMsgs, branch \in Branches,
       resp \in ApiResponses :
        /\ call.repo # None
        /\ call' = Called("UploadMdFileWithToken",
                          [filename |-> filename, commitMsg |-> commitMsg,
                           branch |-> branch],
                          UploadMdFileWithToken(call.repo, filename, "text", commitMsg,
                                                branch, resp),
                          call.profile, call.repo)
        /\ UNCHANGED <<authMu, authSessions, clock, cb, sub, out, hist>>

InitApi ==
    /\ BotInit
    /\ call \in {NewCall(c, None) : c \in Clients} \cup {NewCall(c, RepoOf(c)) : c \in Clients}

NextApi ==
    \/ CallCheckUserExists
    \/ CallGetUserIfExists
    \/ CallCheckUserExistsById
    \/ CallCheckIsRepoExistsById
    \/ CallGetRepoByIdIfExist
    \/ CallGetUserByIdIfExist
    \/ CallGetPublicRepos
    \/ CallIsRepoExist
    \/ CallGetRepoIfExist
    \/ CallGetRepoTags
    \/ CallUploadMdFileWithToken

SpecApi == InitApi /\ [][NextApi]_vars

(***************************************************************************)
(* Properties of the githubapi client (Part II), checked under SpecApi.    *)
(***************************************************************************)
\* the lookups that return a resource, and the not-found error of each
ProfileLookups == {"GetUserIfExists", "GetUserByIdIfExist"}
RepoLookups == {"GetRepoByIdIfExist", "GetRepoIfExist"}
ExistenceChecks ==
    {"CheckUserExists", "CheckUserExistsById", "CheckIsRepoExistsById", "IsRepoExist"}

\* the last call sent its request and upstream answered with a status
Answered == call.op # "new" /\ call.resp # None /\ ~call.resp.fail

\* the integer a decimal string denotes
RECURSIVE Digits(_)
Digits(s) ==
    IF s = << >> THEN 0 ELSE 10 * Digits(SubSeq(s, 1, Len(s) - 1)) + (s[Len(s)] - 48)

Atoi(s) == IF s # << >> /\ s[1] = 45 THEN 0 - Digits(Tail(s)) ELSE Digits(s)

\* the last call returned nil and a not-found error of the kind of its
\* resource, carrying the identifier ident
TypedNotFound(ident) ==
    /\ call.ret = None
    /\ call.err # None
    /\ call.op \in ProfileLookups =>
        call.err.kind = "ProfileNotFoundError" /\ call.err.Profile = ident
    /\ call.op \in RepoLookups =>
        call.err.kind = "RepoNotFoundError" /\ call.err.Repo = ident

\* the identifier of a lookup by id is a decimal string that reads back as the id
DecimalOf(id) == CHOOSE s \in {FormatInt(i) : i \in Ids} : Atoi(s) = id

\* C9 (as claimed): a lookup answered 404 returns nil and a typed not-found
\* error of the kind of its resource whose identifier is the identifier the
\* caller passed: the username, the decimal id, or the repo name.
C9_NotFoundCarriesArgument ==
    (Answered /\ call.op \in ProfileLookups \cup RepoLookups
        /\ call.resp.status = HTTP.NotFound) =>
        TypedNotFound(IF call.op \in {"GetUserIfExists", "GetRepoIfExist"}
                      THEN call.arg ELSE DecimalOf(call.arg))

\* C9 (amended): a lookup answered 404 returns nil and a typed not-found error
\* of the kind of its resource (ProfileNotFoundError for profiles,
\* RepoNotFoundError for repos, never an HTTPError or nil) whose identifier is
\* the identifier that was looked up: the username with the surrounding
\* white space removed, the decimal id, or the repo name as passed.
C9_NotFoundTyped ==
    (Answered /\ call.op \in ProfileLookups \cup RepoLookups
        /\ call.resp.status = HTTP.NotFound) =>
        TypedNotFound(CASE call.op = "GetUserIfExists" -> TrimSpace(call.arg)
                        [] call.op = "GetRepoIfExist" -> call.arg
                        [] OTHER -> DecimalOf(call.arg))

\* C9 witness: GetUserIfExists(" b") was answered 404 and returned a
\* ProfileNotFoundError for "b"
C9_Witness ==
    /\ Answered /\ call.op = "GetUserIfExists" /\ call.arg = s_b
    /\ call.resp.status = HTTP.NotFound
    /\ call.ret = None
    /\ call.err = NewProfileNotFoundError(sb)

\* C10 (as claimed): every operation built on doJSON returns an upstream
\* answer that is neither 2xx nor 404 as an HTTPError with that status and
\* body, and no result.
C10_HTTPErrorReturned ==
    (Answered /\ call.op \in ExistenceChecks \cup ProfileLookups \cup RepoLookups
                                \cup {"GetPublicRepos"}
        /\ call.resp.status # HTTP.NotFound
        /\ (call.resp.status < 200 \/ call.resp.status >= 300)) =>
        /\ call.err = HTTPError(call.resp.status, call.resp.body)
        /\ call.op \in ExistenceChecks => call.ret = FALSE
        /\ call.op \in ProfileLookups \cup RepoLookups => call.ret = None
        /\ call.op = "GetPublicRepos" => call.ret = << >>

\* upstream answered the last call with a 2xx status
Succeeded == Answered /\ call.resp.status >= 200 /\ call.resp.status < 300

\* C11 (as claimed): an existence check returns (true, nil) only when the
\* upstream lookup was answered with a 2xx status, and returns (false, nil)
\* when upstream answered 404; in particular CheckIsRepoExistsById never
\* reports true for a lookup that did not succeed.
C11_ExistsOnlyOnSuccess ==
    call.op \in ExistenceChecks =>
        /\ (call.ret = TRUE /\ call.err = None) => Succeeded
        /\ (Answered /\ call.resp.status = HTTP.NotFound) =>
                (call.ret = FALSE /\ call.err = None)

\* the five fields a resource inherits from the client that produced it
SameConfig(a, c) ==
    /\ a.baseURL = c.baseURL
    /\ a.http = c.http
    /\ a.userAgent = c.userAgent
    /\ a.timeout = c.timeout
    /\ a.oAuth = c.oAuth

RepoOperations == {"GetRepoTags", "UploadMdFileWithToken"}
ProfileOperations == {"GetPublicRepos", "IsRepoExist", "GetRepoIfExist"}

\* the configuration of the receiver of the last call
Producer == IF call.op \in ProfileOperations THEN call.profile.api ELSE call.api

\* C12 (as claimed): every profile or repo a client operation returns carries
\* the base URL, transport, user-agent, timeout and OAuth credentials of the
\* client that produced it, and a later call on a resource sends its request
\* through the client's transport to the client's base URL.
C12_ConfigInherited ==
    /\ (call.op \in ProfileLookups \cup RepoLookups /\ call.err = None /\ call.ret # None) =>
            SameConfig(call.ret.api, Producer)
    /\ (call.op = "GetPublicRepos" /\ call.err = None) =>
            \A i \in DOMAIN call.ret : SameConfig(call.ret[i].api, Producer)
    /\ (call.op \in RepoOperations \cup ProfileOperations /\ call.req # None) =>
            (call.req.baseURL = call.api.baseURL /\ call.req.via = call.api.http)

\* the last call was UploadMdFileWithToken
Uploaded == call.op = "UploadMdFileWithToken"

\* the error of the last call says that the file already exists
SaysAlreadyExists ==
    /\ call.err # None
    /\ call.err.kind = "errorString"
    /\ call.err.text = "file %q already exists on branch %q: %s"

Around(c) == (c - Window)..(c + Window)

\* (n * 2^k) % d, by k doublings
RECURSIVE ShiftMod(_, _, _)
ShiftMod(n, k, d) == IF k = 0 THEN n % d ELSE ShiftMod((2 * (n % d)) % d, k - 1, d)

\* the binary exponent of n / d for n >= d: the e with 2^e <= n/d < 2^(e+1)
RECURSIVE Exponent(_, _)
Exponent(n, d) == IF n < 2 * d THEN 0 ELSE 1 + Exponent(n \div 2, d)

\* float64(n) / d: the sign of the rounding error of the division, the
\* quotient being the double nearest to n/d (53-bit significand).  The
\* remainder is never exactly half a unit in the last place for d = 10^3, 10^6.
QuotientError(n, d) ==
    LET rem == ShiftMod(n, 52 - Exponent(n, d), d) IN
    IF rem = 0 THEN 0 ELSE IF 2 * rem > d THEN 1 ELSE 0 - 1

\* the tenths shown by fmt's %.1f for float64(n)/d: the double is rounded
\* to one decimal, a double exactly half way going to the even digit
Tenths(n, d) ==
    LET t == (10 * n) \div d
        r == (10 * n) % d
        e == QuotientError(n, d)
    IN  IF 2 * r < d THEN t
        ELSE IF 2 * r > d THEN t + 1
        ELSE IF e > 0 THEN t + 1
        ELSE IF e < 0 THEN t
        ELSE IF t % 2 = 0 THEN t ELSE t + 1

\* fmt.Sprintf("%.1f", float64(n)/d)
OneDecimal(n, d) ==
    Decimal(Tenths(n, d) \div 10) \o <<Ascii.dot, chZero + (Tenths(n, d) % 10)>>

\* humanizeInt
humanizeInt(n) ==
    IF n >= 1000000 THEN OneDecimal(n, 1000000) \o <<Ascii.upperM>>
    ELSE IF n >= 1000 THEN OneDecimal(n, 1000) \o <<Ascii.lowerK>>
    ELSE FormatInt(n)

\* the counts humanizeInt is applied to
Counts ==
    (0..Window) \cup Around(1000) \cup Around(1250) \cup Around(1500)
        \cup Around(999950) \cup Around(1000000) \cup Around(2500000)

\* A time.Time is the span since the zero Time, a time.Duration a signed span:
\* whole minutes (negative for a negative span), and the seconds and
\* nanoseconds above them.
Span(min, sec, ns) == [min |-> min, sec |-> sec, ns |-> ns]
Units == [nsPerSec |-> 1000000000, secPerMin |-> 60, minPerHour |-> 60,
          hourPerDay |-> 24]

\* the span of min minutes and ns nanoseconds (ns may be negative), normalised
Normal(min, sec, ns) ==
    LET n == ns % Units.nsPerSec
        s1 == sec + ((ns - n) \div Units.nsPerSec)
        s == s1 % Units.secPerMin
    IN  Span(min + ((s1 - s) \div Units.secPerMin), s, n)

\* a < b for normalised spans
Before(a, b) ==
    \/ a.min < b.min
    \/ a.min = b.min /\ a.sec < b.sec
    \/ a.min = b.min /\ a.sec = b.sec /\ a.ns < b.ns

\* the largest and the smallest Duration: 2^63 - 1 and -2^63 nanoseconds
maxDuration == Span(153722867, 16, 854775807)
minDuration == Span(0 - 153722868, 43, 145224192)

ZeroTime == Span(0, 0, 0)
\* Time.IsZero
IsZero(t) == t = ZeroTime

\* Time.Sub: the difference, saturated at the ends of Duration
Sub(t, u) ==
    LET d == Normal(t.min - u.min, t.sec - u.sec, t.ns - u.ns) IN
    IF Before(maxDuration, d) THEN maxDuration
    ELSE IF Before(d, minDuration) THEN minDuration
    ELSE d

\* the binary exponent of a positive integer
RECURSIVE Log2(_)
Log2(n) == IF n < 2 THEN 0 ELSE 1 + Log2(n \div 2)

RECURSIVE Pow2(_)
Pow2(k) == IF k = 0 THEN 1 ELSE 2 * Pow2(k - 1)

\* Duration.Hours is float64(hour) + float64(nsec)/(60*60*1e9).  The sum is
\* rounded to a double: when d is j nanoseconds short of the next hour and
\* j/3.6e12 is less than half the spacing of the doubles at hour, the sum is
\* the next hour.  3.6e12 = 2^13 * 439453125.
RoundsToNextHour(d) ==
    LET hour == d.min \div Units.minPerHour
        e == Log2(hour)
        j == Units.nsPerSec - d.ns
    IN  /\ d.min % Units.minPerHour = Units.minPerHour - 1
        /\ d.sec = Units.secPerMin - 1
        /\ d.ns > 0
        /\ hour >= 1
        /\ e <= 40 /\ 40 - e <= 30
        /\ j <= 439453124 \div Pow2(40 - e)

\* int(d.Hours()) for d >= 0
WholeHours(d) ==
    (d.min \div Units.minPerHour) + (IF RoundsToNextHour(d) THEN 1 ELSE 0)

Ago(n, unit) == [n |-> n, text |-> unit]

\* humanizeSince; wall is what time.Now() returns
humanizeSince(t, now0, wall) ==
    LET now == IF IsZero(now0) THEN wall ELSE now0
        d == Sub(now, t)
        days == WholeHours(d) \div Units.hourPerDay
        months == days \div 30
        years == months \div 12
    IN  IF d.min < 1 THEN Ago(0, "just now")
        ELSE IF d.min < Units.minPerHour THEN Ago(d.min, "%d minutes ago")
        ELSE IF d.min < Units.hourPerDay * Units.minPerHour
        THEN Ago(WholeHours(d), "%d hours ago")
        ELSE IF days < 30 THEN Ago(days, "%d days ago")
        ELSE IF months < 12 THEN Ago(months, "%d months ago")
        ELSE Ago(years, "%d years ago")

\* the instants of the model: the wall clock, and the values passed as now
WallClock == Span(1065000000, 0, 0)
Nows == {ZeroTime, WallClock}
\* the elapsed minutes at which the bucket changes: 0, 1 min, 1 h, 24 h,
\* 30 days, 180 days, 360 days
Boundaries == {0, 1, 60, 1440, 43200, 259200, 518400}
\* the times passed as t: within Window nanoseconds of a boundary before the
\* wall clock, and the zero Time
Times ==
    {Normal(WallClock.min - b, 0, 0 - k) : b \in Boundaries, k \in (0 - Window)..Window}
        \cup {ZeroTime}

CallHumanizeSince ==
    /\ call.op = "input" /\ call.fn = "humanizeSince"
    /\ call' = [op |-> "humanizeSince", arg |-> call.arg,
                ret |-> humanizeSince(call.arg.t, call.arg.now, WallClock)]
    /\ UNCHANGED <<authMu, authSessions, clock, cb, sub, out, hist>>

\* the URL fields of a repo: empty, or one of three URLs
URLs == {"", "git@x", "https://x", "git://x"}
RepoURLs == [SSHURL : URLs, CloneURL : URLs, GitURL : URLs, HTMLURL : URLs]

\* mutant: the SSH URL is preferred whatever the flag
PreferredCloneURL_AlwaysSSH(r, ssh) ==
    IF r.SSHURL # "" THEN r.SSHURL
    ELSE IF r.CloneURL # "" THEN r.CloneURL
    ELSE IF r.GitURL # "" THEN r.GitURL
    ELSE r.HTMLURL
\* GitHubRepoAPI.PreferredCloneURL
PreferredCloneURL(r, ssh) ==
    IF ssh /\ r.SSHURL # "" THEN r.SSHURL
    ELSE IF r.CloneURL # "" THEN r.CloneURL
    ELSE IF r.GitURL # "" THEN r.GitURL
    ELSE r.HTMLURL

CallPreferredCloneURL ==
    /\ call.op = "input" /\ call.fn = "PreferredCloneURL"
    /\ call' = [op |-> "PreferredCloneURL", arg |-> call.arg,
                ret |-> PreferredCloneURL(call.arg.r, call.arg.ssh)]
    /\ UNCHANGED <<authMu, authSessions, clock, cb, sub, out, hist>>

CallHumanizeInt ==
    /\ call.op = "input" /\ call.fn = "humanizeInt"
    /\ call' = [op |-> "humanizeInt", arg |-> call.arg, ret |-> humanizeInt(call.arg)]
    /\ UNCHANGED <<authMu, authSessions, clock, cb, sub, out, hist>>

\* the inputs of the helpers
Input(fn, arg) == [op |-> "input", fn |-> fn, arg |-> arg]
IntInputs == {Input("humanizeInt", n) : n \in Counts}
CloneInputs ==
    {Input("PreferredCloneURL", [r |-> r, ssh |-> ssh]) : r \in RepoURLs, ssh \in BOOLEAN}
SinceInputs == {Input("humanizeSince", [t |-> t, now |-> now]) : t \in Times, now \in Nows}

InitFmt ==
    /\ BotInit
    /\ \/ call \in IntInputs
       \/ call \in SinceInputs
       \/ call \in CloneInputs

NextFmt ==
    \/ CallHumanizeInt
    \/ CallHumanizeSince
    \/ CallPreferredCloneURL

SpecFmt == InitFmt /\ [][NextFmt]_vars

(***************************************************************************)
(* Properties of the helpers (Part III), checked under SpecFmt.            *)
(***************************************************************************)
\* the number a string of the form "<digits>.<digit><suffix>" displays, in tenths
DisplayedTenths(s) ==
    10 * Digits(SubSeq(s, 1, Len(s) - 3)) + (s[Len(s) - 1] - 48)

\* s is "<digits>.<digit>" followed by the suffix
HasOneDecimal(s, suffix) ==
    /\ Len(s) >= 4
    /\ s[Len(s)] = suffix
    /\ s[Len(s) - 2] = 46
    /\ \A i \in (1..(Len(s) - 3)) \cup {Len(s) - 1} : s[i] \in 48..57

\* C14 (as claimed): for n >= 0, humanizeInt(n) is the decimal digits of n
\* when n < 1000; n/1000 to one decimal with suffix "k" when
\* 1000 <= n < 1,000,000, the displayed value being below 1000.0; and
\* n/1,000,000 to one decimal with suffix "M" when n >= 1,000,000.
C14_HumanizeByRange ==
    call.op = "humanizeInt" =>
        LET n == call.arg
            s == call.ret
        IN  /\ n < 1000 => (\A i \in DOMAIN s : s[i] \in 48..57) /\ Digits(s) = n
            /\ (n >= 1000 /\ n < 1000000) =>
                    /\ HasOneDecimal(s, 107)
                    /\ 100 * DisplayedTenths(s) - n \in (0 - 50)..50
                    /\ DisplayedTenths(s) < 10000
            /\ n >= 1000000 =>
                    /\ HasOneDecimal(s, 77)
                    /\ 100000 * DisplayedTenths(s) - n \in (0 - 50000)..50000

\* the elapsed span of the last humanizeSince call: the instant taken as now
\* (the wall clock when the zero Time was passed) minus t, not saturated
Elapsed ==
    LET now == IF call.arg.now = ZeroTime THEN WallClock ELSE call.arg.now IN
    Normal(now.min - call.arg.t.min, now.sec - call.arg.t.sec, now.ns - call.arg.t.ns)

\* C15 (as claimed): for every elapsed Duration d, humanizeSince reports
\* "just now" when d < 1 minute (a negative d included), the whole minutes
\* when d < 1 hour, the whole hours when d < 24 hours, the whole days when
\* they are fewer than 30, the whole days / 30 as months when those are fewer
\* than 12, and otherwise months / 12 as years; N is 0 only for "just now".
C15_SinceBuckets ==
    (call.op = "humanizeSince" /\ ~Before(maxDuration, Elapsed)
        /\ ~Before(Elapsed, minDuration)) =>
        LET m == Elapsed.min
            days == m \div 1440
            months == days \div 30
        IN  /\ call.ret =
                (IF m < 1 THEN Ago(0, "just now")
                 ELSE IF m < 60 THEN Ago(m, "%d minutes ago")
                 ELSE IF m < 1440 THEN Ago(m \div 60, "%d hours ago")
                 ELSE IF days < 30 THEN Ago(days, "%d days ago")
                 ELSE IF months < 12 THEN Ago(months, "%d months ago")
                 ELSE Ago(months \div 12, "%d years ago"))
            /\ call.ret.text # "just now" => call.ret.n >= 1

\* the candidates PreferredCloneURL considers, in order of preference
Considered ==
    (IF call.arg.ssh THEN <<call.arg.r.SSHURL>> ELSE << >>)
        \o <<call.arg.r.CloneURL, call.arg.r.GitURL, call.arg.r.HTMLURL>>

\* C16: PreferredCloneURL(ssh) returns the first non-empty candidate in the
\* order SSH URL (considered only when ssh is true), HTTPS clone URL, git URL,
\* web URL; with ssh false it returns the SSH URL only when that equals
\* another candidate; and the result is empty only when every considered
\* candidate is empty.
C16_FirstNonEmpty ==
    call.op = "PreferredCloneURL" =>
        /\ \/ \E i \in DOMAIN Considered :
                /\ call.ret = Considered[i]
                /\ Considered[i] # ""
                /\ \A j \in 1..(i - 1) : Considered[j] = ""
           \/ call.ret = "" /\ \A i \in DOMAIN Considered : Considered[i] = ""
        /\ (~call.arg.ssh /\ call.ret = call.arg.r.SSHURL) =>
                call.ret \in {call.arg.r.CloneURL, call.arg.r.GitURL, call.arg.r.HTMLURL}
        /\ call.ret = "" => \A i \in DOMAIN Considered : Considered[i] = ""

\* C16 witness: with SSH URL "git@x" and clone URL "https://x", ssh gives
\* "git@x"
C16_Witness ==
    /\ call.op = "PreferredCloneURL" /\ call.arg.ssh
    /\ call.arg.r.SSHURL = "git@x" /\ call.arg.r.CloneURL = "https://x"
    /\ call.ret = "git@x"

\* the same repo without the ssh preference gives "https://x"
C16_WitnessHTTPS ==
    /\ call.op = "PreferredCloneURL" /\ ~call.arg.ssh
    /\ call.arg.r.SSHURL = "git@x" /\ call.arg.r.CloneURL = "https://x"
    /\ call.ret = "https://x"

(***************************************************************************)
(* Further properties of the bot (Part I), checked under Spec.             *)
(***************************************************************************)
\* the step wrote a message of handleUsernameInput to a chat
ChatReply(o) == o # None /\ o.src = "chat" /\ o.reached

\* C17 (as claimed): handleUsernameInput stores a session and sends the
\* authorization link only when the existence check was answered 200; when
\* upstream answers 404 the chat is told that the account was not found; when
\* the check fails (transport error, or a status other than 200 and 404) the
\* chat is told of an error, not of "not found"; in both cases the session
\* map is left unchanged; and a text message that is empty or starts with
\* '/' never reaches handleUsernameInput.
C17_LinkOnlyForExisting ==
    [][ /\ ChatReply(out') =>
            /\ out'.reply = "link" <=>
                    (~out'.check.fail /\ out'.check.status = HTTP.OK)
            /\ (~out'.check.fail /\ out'.check.status = HTTP.NotFound) =>
                    (out'.reply = "not_found" /\ authSessions' = authSessions)
            /\ (out'.check.fail \/ out'.check.status \notin {HTTP.OK, HTTP.NotFound}) =>
                    (out'.reply = "check_error" /\ authSessions' = authSessions)
        /\ (out' # None /\ out'.src = "chat" /\ out'.via = "text"
                /\ IgnoredText(out'.text)) =>
            (~out'.reached /\ out'.reply = "" /\ authSessions' = authSessions)
      ]_vars

\* the chats whose handler can have generated the state token
OwnersOf(state) ==
    {c \in ChatIDs : \E t \in 0..MaxClock : state = generateState(c, t)}

\* the kinds of notification a callback sends
NotificationKinds == {"exchange_failed", "userinfo_failed", "mismatch", "success"}

\* the response just written is that of a callback that removed a session
RemovedSession == IsResponse /\ out.session # None

\* the handler of submission h stores its session in this step
Stores(h) == sub[h].pc = "lock" /\ sub'[h].pc = "done"

\* C18: a callback that removed a session has sent exactly one notification
\* (failure, mismatch or success) when it finishes, to the chat id of the
\* removed session; that session is the one the map held under the state
\* token, stored by a handler of the chat that owns the token with the login
\* that chat submitted, and it is the login the identity is compared against;
\* a callback that removed nothing notifies nobody.  This holds in every
\* interleaving with the submissions and callbacks of other chats.
C18_NotifiesOwner ==
    /\ [](IsResponse =>
            IF out.session = None THEN out.notif = << >>
            ELSE /\ Len(out.notif) = 1
                 /\ out.notif[1].kind \in NotificationKinds
                 /\ out.notif[1].to = out.session.ChatID
                 /\ out.session.State = out.state
                 /\ OwnersOf(out.state) = {out.session.ChatID}
                 /\ out.notif[1].kind = "mismatch" =>
                        /\ out.notif[1].requested = out.session.RequestedLogin
                        /\ ~SameIgnoringCase(out.user.Login, out.session.RequestedLogin)
                 /\ out.notif[1].kind = "success" =>
                        SameIgnoringCase(out.user.Login, out.session.RequestedLogin))
    /\ [](\A k \in DOMAIN authSessions :
            /\ authSessions[k].State = k
            /\ OwnersOf(k) = {authSessions[k].ChatID})
    /\ [][ /\ \A k \in DOMAIN authSessions' :
                \/ k \in DOMAIN authSessions /\ authSessions'[k] = authSessions[k]
                \/ \E h \in Submissions :
                    /\ Stores(h)
                    /\ k = sub[h].state
                    /\ authSessions'[k].ChatID = sub[h].chatID
                    /\ authSessions'[k].RequestedLogin = sub[h].username
           /\ (out' # None /\ out'.src = "callback" /\ out'.session # None) =>
                /\ out'.state \in DOMAIN authSessions
                /\ out'.session = authSessions[out'.state]
         ]_vars

\* a callback on the token of chat 11 notified chat 11 while a session of
\* chat 1 was pending
C18_Witness ==
    /\ RemovedSession
    /\ out.session.ChatID = 11
    /\ Len(out.notif) = 1 /\ out.notif[1].to = 11
    /\ \E k \in DOMAIN authSessions : authSessions[k].ChatID = 1

\* the callback c is between its lookup and its delete and found a session
\* under the state token k
Consumes(c, k) == cb[c].pc = "delete" /\ cb[c].ok /\ cb[c].state = k

\* C19 (as claimed): a found session is removed before the token exchange
\* starts and the state token is never in the session map again, whatever the
\* outcome of the callback; such a callback performs at most one token
\* exchange and at most one identity fetch, the fetch only after a successful
\* exchange; and a state token leaves the map only through a callback that
\* found it.
C19_RemovedForGood ==
    /\ [](RemovedSession =>
            /\ out.state \notin DOMAIN authSessions
            /\ out.tokenResp # None
            /\ out.identity # None => exchangeCodeForToken(out.tokenResp).err = None)
    /\ [][ /\ \A k \in DOMAIN authSessions :
                k \notin DOMAIN authSessions' => \E c \in Callbacks : Consumes(c, k)
           /\ \A k \in AllTokens :
                hist[k] = "consumed" => k \notin DOMAIN authSessions'
         ]_vars

=============================================================================
